---------------------------- MODULE Spec2Model ----------------------------
(***************************************************************************)
(* scummer: parseScummvmOutput (src/main.go).                              *)
(*                                                                         *)
(* A string is a sequence of one-character strings.  parseScummvmOutput   *)
(* is modelled step by step: the not-found check, the header check, the    *)
(* split into lines, the search for the rule line, the extraction of one   *)
(* row per step, the size checks and the scoring scan, one candidate per   *)
(* step.  Array indices are Go's (from 0); element i of a Go slice s is    *)
(* s[i + 1] here.                                                          *)
(***************************************************************************)
EXTENDS Integers, Sequences, FiniteSets, TLC

(***************************************************************************)
(* Bounds of the model.                                                    *)
(***************************************************************************)
MaxLines == 4

MaxLineLen == 10

(***************************************************************************)
(* Characters and literal phrases.                                         *)
(***************************************************************************)
LF == <<"\n">>

CRLF == <<"\r", "\n">>

NotFoundPhrase == <<"W", "A", "R", "N", "I", "N", "G", ":", " ", "S", "c", "u", "m", "m", "V", "M", " ", "c", "o", "u", "l", "d", " ", "n", "o", "t", " ", "f", "i", "n", "d", " ", "a", "n", "y", " ", "g", "a", "m", "e", " ", "i", "n">>

GameIDWord == <<"G", "a", "m", "e", "I", "D">>

DescriptionWord == <<"D", "e", "s", "c", "r", "i", "p", "t", "i", "o", "n">>

FullPathWord == <<"F", "u", "l", "l", " ", "P", "a", "t", "h">>

\* The three failures parseScummvmOutput returns, by their messages.
ErrNotFound == "scummvm could not find any game"

ErrNoHeader == "scummvm output does not contain a match for regex"

ErrEmptySlice == "scummvm output slice is empty"

\* The class \s of Go's regexp: [\t\n\f\r ].
IsSpace(c) == c \in {" ", "\t", "\n", "\f", "\r"}

\* The class . of Go's regexp without the s flag: any character but \n.
IsDot(c) == c # "\n"

AllSpace(s, a, b) == \A x \in a..b : IsSpace(s[x])

AllDot(s, a, b) == \A x \in a..b : IsDot(s[x])

Min2(a, b) == IF a <= b THEN a ELSE b

Min3(a, b, c) == Min2(a, Min2(b, c))

MinOf(S) == CHOOSE x \in S : \A y \in S : x <= y

MaxOf(S) == CHOOSE x \in S : \A y \in S : x >= y

(***************************************************************************)
(* strings.Contains, strings.Split.                                        *)
(***************************************************************************)
HasAt(s, p, w) == p + Len(w) - 1 <= Len(s) /\ SubSeq(s, p, p + Len(w) - 1) = w

\* strings.Index, from 1; 0 when w does not occur.
IndexOf(s, w) ==
  LET P == {p \in 1..(Len(s) - Len(w) + 1) : HasAt(s, p, w)}
  IN IF P = {} THEN 0 ELSE MinOf(P)

Contains(s, w) == IndexOf(s, w) # 0

RECURSIVE Split(_, _)
Split(s, sep) ==
  LET p == IndexOf(s, sep)
  IN IF p = 0
       THEN <<s>>
       ELSE <<SubSeq(s, 1, p - 1)>> \o Split(SubSeq(s, p + Len(sep), Len(s)), sep)

(***************************************************************************)
(* The regular expressions.                                                *)
(***************************************************************************)
\* A variant of the not-found test: strings.HasPrefix in place of
\* strings.Contains.
ContainsNotFoundAtStart(s) == HasAt(s, 1, NotFoundPhrase)

\* strings.Contains(scummvmOutput, "WARNING: ScummVM could not find any game in")
ContainsNotFound(s) == Contains(s, NotFoundPhrase)

\* A variant of the header test: \s in place of \s+.
HeaderMatchOneSpace(s) ==
  \E p \in 1..Len(s) :
    /\ p + 27 <= Len(s)
    /\ HasAt(s, p, GameIDWord)
    /\ IsSpace(s[p + 6])
    /\ HasAt(s, p + 7, DescriptionWord)
    /\ IsSpace(s[p + 18])
    /\ HasAt(s, p + 19, FullPathWord)

\* regexp `GameID\s+Description\s+Full Path`, MatchString (unanchored).
HeaderMatch(s) ==
  \E p \in 1..Len(s) :
    /\ HasAt(s, p, GameIDWord)
    /\ \E q \in (p + 7)..Len(s) :
         /\ AllSpace(s, p + 6, q - 1)
         /\ HasAt(s, q, DescriptionWord)
         /\ \E r \in (q + 12)..Len(s) :
              /\ AllSpace(s, q + 11, r - 1)
              /\ HasAt(s, r, FullPathWord)

\* regexp `^-+\s-+\s-+$`, MatchString: dashes, one \s, dashes, one \s, dashes.
LineMatch(l) ==
  \E a \in 2..(Len(l) - 3) :
    \E b \in (a + 2)..(Len(l) - 1) :
      /\ IsSpace(l[a])
      /\ IsSpace(l[b])
      /\ \A x \in (1..Len(l)) \ {a, b} : l[x] = "-"

\* regexp `^(.+?)\s{2,}(.+?)\s{2,}(.+?)$`.  A match is group 1 = s[1..p1],
\* a run of \s s[p1+1..q1], group 2 = s[q1+1..p2], a run of \s s[p2+1..q2],
\* group 3 = s[q2+1..Len(s)].
\* Rest: s[q1+1..] is group 2, a run of \s and group 3, for an end p2 of
\* group 2 in P and an end q2 of the run in Q.
Rest(s, q1, P, Q) ==
  \E p2 \in P :
    /\ q1 + 1 <= p2
    /\ AllDot(s, q1 + 1, p2)
    /\ \E q2 \in Q :
         /\ p2 + 2 <= q2
         /\ q2 + 1 <= Len(s)
         /\ AllSpace(s, p2 + 1, q2)
         /\ AllDot(s, q2 + 1, Len(s))

MatchAt(s, p1, q1, p2, q2) ==
  /\ 1 <= p1
  /\ p1 + 2 <= q1
  /\ AllDot(s, 1, p1)
  /\ AllSpace(s, p1 + 1, q1)
  /\ Rest(s, q1, {p2}, {q2})

\* A variant of the row pattern: `^(.+)\s{2,}(.+)\s{2,}(.+)$`, the pattern of
\* the comment of line 122, whose groups take the longest match.
SubmatchGreedy(s) ==
  LET n == Len(s)
      All == 1..n
      Q1(p1) == {q \in (p1 + 2)..n : AllSpace(s, p1 + 1, q) /\ Rest(s, q, All, All)}
      P1 == {p \in All : AllDot(s, 1, p) /\ Q1(p) # {}}
  IN IF P1 = {}
       THEN <<>>
       ELSE LET p1 == MaxOf(P1)
                q1 == MaxOf(Q1(p1))
                p2 == MaxOf({p \in All : Rest(s, q1, {p}, All)})
                q2 == MaxOf({q \in All : MatchAt(s, p1, q1, p2, q)})
            IN <<SubSeq(s, 1, p1), SubSeq(s, q1 + 1, p2), SubSeq(s, q2 + 1, n)>>

\* The match Go's leftmost-first search prefers: (.+?) takes the shortest
\* group that lets the rest match, \s{2,} the longest run.
Submatch(s) ==
  LET n == Len(s)
      All == 1..n
      Q1(p1) == {q \in (p1 + 2)..n : AllSpace(s, p1 + 1, q) /\ Rest(s, q, All, All)}
      P1 == {p \in All : AllDot(s, 1, p) /\ Q1(p) # {}}
  IN IF P1 = {}
       THEN <<>>
       ELSE LET p1 == MinOf(P1)
                q1 == MaxOf(Q1(p1))
                p2 == MinOf({p \in All : Rest(s, q1, {p}, All)})
                q2 == MaxOf({q \in All : MatchAt(s, p1, q1, p2, q)})
            IN <<SubSeq(s, 1, p1), SubSeq(s, q1 + 1, p2), SubSeq(s, q2 + 1, n)>>

\* matcher.ReplaceAllString(line, "$g"): the anchored pattern matches the whole
\* line or nothing, and a line without a match is returned unchanged.
ReplaceAllString(line, g) ==
  LET m == Submatch(line) IN IF m = <<>> THEN line ELSE m[g]

\* The three fields of one line, as lines 125-128 extract them.
ParseLine(line) ==
  [GameID |-> ReplaceAllString(line, 1),
   Description |-> ReplaceAllString(line, 2),
   Directory |-> ReplaceAllString(line, 3)]

\* The test of line 132: a row with an empty field is skipped.
HasEmptyField(m) == m.GameID = <<>> \/ m.Description = <<>> \/ m.Directory = <<>>

(***************************************************************************)
(* The normalizer: filepath.Base and snowball.Stem(_, "english", false).   *)
(***************************************************************************)
\* os.IsPathSeparator of a build whose separator is '/'.
IsPathSeparator(c) == c = "/"

RECURSIVE StripTrailingSeparators(_)
StripTrailingSeparators(path) ==
  IF Len(path) > 0 /\ IsPathSeparator(path[Len(path)])
    THEN StripTrailingSeparators(SubSeq(path, 1, Len(path) - 1))
    ELSE path

\* filepath.Base: "." for the empty path, trailing separators stripped, the
\* last element kept, the separator itself for a path of separators only.
Base(path) ==
  IF path = <<>>
    THEN <<".">>
    ELSE LET p == StripTrailingSeparators(path)
             S == {x \in 1..Len(p) : IsPathSeparator(p[x])}
             e == IF S = {} THEN p ELSE SubSeq(p, MaxOf(S) + 1, Len(p))
         IN IF e = <<>> THEN <<"/">> ELSE e

\* unicode.ToLower on the capitals the model's texts hold.
Lower(c) ==
  CASE c = "A" -> "a" [] c = "B" -> "b" [] c = "D" -> "d" [] c = "F" -> "f"
    [] c = "G" -> "g" [] c = "I" -> "i" [] c = "P" -> "p" [] OTHER -> c

RECURSIVE ToLower(_)
ToLower(s) == IF s = <<>> THEN <<>> ELSE <<Lower(Head(s))>> \o ToLower(Tail(s))

\* strings.TrimSpace.
TrimSpace(s) ==
  LET N == {x \in 1..Len(s) : ~IsSpace(s[x])}
  IN IF N = {} THEN <<>> ELSE SubSeq(s, MinOf(N), MaxOf(N))

\* The words english.Stem can return for w.  The stemmer lowers and trims
\* the word and returns a word of at most two characters as it is; a longer
\* word loses a suffix or keeps it, which is bounded here to the last
\* character.
StemWords(w) ==
  LET t == ToLower(TrimSpace(w))
  IN IF Len(t) <= 2 THEN {t} ELSE {t, SubSeq(t, 1, Len(t) - 1)}

\* The outcomes of snowball.Stem the caller tells apart: a stemmed word with a
\* nil error, or a non-nil error (lines 172 and 177 test it).
StemOutcomes(w) ==
  {[err |-> FALSE, stemmed |-> t] : t \in StemWords(w)} \cup {[err |-> TRUE, stemmed |-> <<>>]}

(***************************************************************************)
(* The scorer: metrics.Levenshtein as lines 157-161 configure it, and      *)
(* strutil.Similarity.  A score is a fraction <<numerator, denominator>>   *)
(* with a positive denominator.                                            *)
(***************************************************************************)
InsertCost == 1

ReplaceCost == 2

DeleteCost == 1

\* One column of the distance table: col[j+1] is the least of a deletion, an
\* insertion and a substitution.
RECURSIVE FillCol(_, _, _, _, _)
FillCol(prevCol, col, ai, b, j) ==
  IF j > Len(b)
    THEN col
    ELSE FillCol(prevCol,
                 Append(col, Min3(prevCol[j + 1] + DeleteCost,
                                  col[j] + InsertCost,
                                  prevCol[j] + (IF ai = b[j] THEN 0 ELSE ReplaceCost))),
                 ai, b, j + 1)

\* prevCol before the first character of a: 0, 1, ..., lenB.
RECURSIVE FirstCol(_)
FirstCol(lenB) == IF lenB = 0 THEN <<0>> ELSE Append(FirstCol(lenB - 1), lenB)

RECURSIVE LastCol(_, _, _, _)
LastCol(prevCol, a, b, i) ==
  IF Len(prevCol) = 0 \/ i > Len(a)   \* Len(prevCol) has TLC finish a column before the next
    THEN prevCol
    ELSE LastCol(FillCol(prevCol, <<i>>, a[i], b, 1), a, b, i + 1)

\* Levenshtein.distance: <<distance, length of the longer term>>, the terms
\* lowered first (CaseSensitive = false).
LevDistance(x, y) ==
  LET a == ToLower(x)
      b == ToLower(y)
      maxLen == IF Len(a) >= Len(b) THEN Len(a) ELSE Len(b)
  IN IF Len(a) = 0 /\ Len(b) = 0 THEN <<0, 0>>
     ELSE IF Len(a) = 0 THEN <<InsertCost * Len(b), maxLen>>
     ELSE IF Len(b) = 0 THEN <<DeleteCost * Len(a), maxLen>>
     ELSE <<LastCol(FirstCol(Len(b)), a, b, 1)[Len(b) + 1], maxLen>>

\* strutil.Similarity(a, b, lev) = 1 - distance/maxLen, and 1 when both terms
\* are empty (the division by 0 is replaced by 0).
Similarity(a, b) ==
  LET d == LevDistance(a, b)
  IN IF d[2] = 0 THEN <<1, 1>> ELSE <<d[2] - d[1], d[2]>>

Zero == <<0, 1>>

One == <<1, 1>>

\* x > y, x = y and x <= y on fractions.
Greater(x, y) == x[1] * y[2] > y[1] * x[2]

SameScore(x, y) == x[1] * y[2] = y[1] * x[2]

AtMost(x, y) == ~Greater(x, y)

\* A variant of the test of line 185: >= in place of >.
CloserOrSame(levenshteinDistance, closestMatchDistance) ==
  ~Greater(closestMatchDistance, levenshteinDistance)

\* The test of line 185: a later candidate replaces the best one only with a
\* strictly greater score.
Closer(levenshteinDistance, closestMatchDistance) ==
  Greater(levenshteinDistance, closestMatchDistance)

(***************************************************************************)
(* The texts parseScummvmOutput is run on: the header line or none, then    *)
(* up to MaxLines lines, each one of Lines; every line is ended by "\n",    *)
(* or every line by "\r\n".                                                *)
(***************************************************************************)
HeaderLine == GameIDWord \o <<" ", " ">> \o DescriptionWord \o <<" ", " ">> \o FullPathWord

RuleLine == <<"-", " ", "-", " ", "-">>

\* Rows of the table: identifier, description and path, two spaces apart.
RowSame == <<"a", " ", " ", "A", " ", " ", "/", "b", "/", "a", "/">>

RowOther == <<"b", " ", " ", "a", " ", " ", "b">>

RowLong == <<"c", " ", " ", "a", "b", " ", " ", "c">>

\* Lines that are no rows: spaces only, and a word that does not split.
SpacesLine == <<" ", " ">>

WordLine == <<"a", "b">>

Lines == {NotFoundPhrase, RuleLine, RowSame, RowOther, RowLong, SpacesLine, WordLine}

Preambles == {<<>>, <<HeaderLine>>}

RECURSIVE SeqsUpTo(_, _)
SeqsUpTo(S, n) ==
  IF n = 0
    THEN {<<>>}
    ELSE LET R == SeqsUpTo(S, n - 1)
         IN R \cup {Append(r, x) : r \in {q \in R : Len(q) = n - 1}, x \in S}

RECURSIVE Terminated(_, _)
Terminated(ls, term) ==
  IF ls = <<>> THEN <<>> ELSE Head(ls) \o term \o Terminated(Tail(ls), term)

(***************************************************************************)
(* The state of one call of parseScummvmOutput.                            *)
(***************************************************************************)
VARIABLES
  content,              \* the lines of the text, without their line ends
  crlf,                 \* whether each line ends with "\r\n"
  scummvmOutput,        \* the argument: the text
  pc,                   \* where the call is
  scummvmOutputSplit,   \* the lines (line 102)
  i,                    \* the index of the loops of lines 116 and 169
  j,                    \* the index of the loop of line 121
  scummvmOutputSlice,   \* the candidates (line 105)
  closestMatchIndex,    \* line 167
  closestMatchDistance, \* line 168
  scores,               \* what the scan made of each candidate so far
  result                \* what the call returned

vars == <<content, crlf, scummvmOutput, pc, scummvmOutputSplit, i, j, scummvmOutputSlice,
          closestMatchIndex, closestMatchDistance, scores, result>>

NoResult == [GameID |-> <<>>, Description |-> <<>>, err |-> "none"]

Failure(e) == [GameID |-> <<>>, Description |-> <<>>, err |-> e]

\* A variant of the returned pair: the directory in place of the description.
SuccessDirectory(m) == [GameID |-> m.GameID, Description |-> m.Directory, err |-> "nil"]

Success(m) == [GameID |-> m.GameID, Description |-> m.Description, err |-> "nil"]

Start(ls, windows) ==
  /\ content = ls
  /\ crlf = windows
  /\ scummvmOutput = Terminated(ls, IF windows THEN CRLF ELSE LF)
  /\ pc = "notfound"
  /\ scummvmOutputSplit = <<>>
  /\ i = 0
  /\ j = 0
  /\ scummvmOutputSlice = <<>>
  /\ closestMatchIndex = 0
  /\ closestMatchDistance = Zero
  /\ scores = <<>>
  /\ result = NoResult

Init ==
  \E pre \in Preambles : \E ls \in SeqsUpTo(Lines, MaxLines) : \E windows \in BOOLEAN :
    Start(pre \o ls, windows)

\* Lines 84-87.
CheckNotFound ==
  /\ pc = "notfound"
  /\ IF ContainsNotFound(scummvmOutput)
       THEN pc' = "done" /\ result' = Failure(ErrNotFound)
       ELSE pc' = "header" /\ result' = result
  /\ UNCHANGED <<content, crlf, scummvmOutput, scummvmOutputSplit, i, j, scummvmOutputSlice,
                 closestMatchIndex, closestMatchDistance, scores>>

\* Lines 90-93.
CheckHeader ==
  /\ pc = "header"
  /\ IF ~HeaderMatch(scummvmOutput)
       THEN pc' = "done" /\ result' = Failure(ErrNoHeader)
       ELSE pc' = "split" /\ result' = result
  /\ UNCHANGED <<content, crlf, scummvmOutput, scummvmOutputSplit, i, j, scummvmOutputSlice,
                 closestMatchIndex, closestMatchDistance, scores>>

\* A variant of the line end: "\n" whatever the text holds.
EolUnix(s) == LF

\* The line end of lines 96-99.
Eol(s) == IF Contains(s, CRLF) THEN CRLF ELSE LF

\* Lines 96-102.
SplitLines ==
  /\ pc = "split"
  /\ scummvmOutputSplit' = Split(scummvmOutput, Eol(scummvmOutput))
  /\ i' = 0
  /\ pc' = "rule"
  /\ UNCHANGED <<content, crlf, scummvmOutput, j, scummvmOutputSlice,
                 closestMatchIndex, closestMatchDistance, scores, result>>

\* One turn of the loop of line 116: the first line that is a rule starts the
\* rows; without one the loop ends with no candidate.
FindRule ==
  /\ pc = "rule"
  /\ IF i < Len(scummvmOutputSplit)
       THEN IF LineMatch(scummvmOutputSplit[i + 1])
              THEN pc' = "rows" /\ j' = i + 1 /\ i' = i
              ELSE pc' = pc /\ j' = j /\ i' = i + 1
       ELSE pc' = "count" /\ j' = j /\ i' = i
  /\ UNCHANGED <<content, crlf, scummvmOutput, scummvmOutputSplit, scummvmOutputSlice,
                 closestMatchIndex, closestMatchDistance, scores, result>>

\* One turn of the loop of line 121, and the break of line 141 at its end.
ParseRow ==
  /\ pc = "rows"
  /\ IF j < Len(scummvmOutputSplit)
       THEN LET scummGameMatch == ParseLine(scummvmOutputSplit[j + 1])
            IN /\ scummvmOutputSlice' = IF HasEmptyField(scummGameMatch)
                                          THEN scummvmOutputSlice
                                          ELSE Append(scummvmOutputSlice, scummGameMatch)
               /\ j' = j + 1
               /\ pc' = pc
       ELSE pc' = "count" /\ j' = j /\ scummvmOutputSlice' = scummvmOutputSlice
  /\ UNCHANGED <<content, crlf, scummvmOutput, scummvmOutputSplit, i,
                 closestMatchIndex, closestMatchDistance, scores, result>>

\* Lines 146-154 and 167-169.
CheckCount ==
  /\ pc = "count"
  /\ IF Len(scummvmOutputSlice) = 0
       THEN pc' = "done" /\ result' = Failure(ErrEmptySlice)
       ELSE IF Len(scummvmOutputSlice) = 1
              THEN pc' = "done" /\ result' = Success(scummvmOutputSlice[1])
              ELSE pc' = "scan" /\ result' = result
  /\ i' = 0
  /\ closestMatchIndex' = 0
  /\ closestMatchDistance' = Zero
  /\ UNCHANGED <<content, crlf, scummvmOutput, scummvmOutputSplit, j, scummvmOutputSlice, scores>>

\* What one turn of the scan makes of candidate m: skipped when a stemming
\* fails (lines 171-179), else its similarity (line 182).
ScanOutcomes(m) ==
  {[skipped |-> TRUE, score |-> Zero]} \cup
  {[skipped |-> FALSE, score |-> Similarity(d.stemmed, p.stemmed)] :
     d \in {o \in StemOutcomes(m.Description) : ~o.err},
     p \in {o \in StemOutcomes(Base(m.Directory)) : ~o.err}}

\* A variant of the scan's turn: the errors of lines 172 and 177 are not
\* tested, and the empty words a failed stemming leaves are scored.
ScoreStepIgnoringErr ==
  /\ pc = "scan"
  /\ i < Len(scummvmOutputSlice)
  /\ \E o \in ScanOutcomes(scummvmOutputSlice[i + 1]) :
       LET levenshteinDistance == IF o.skipped THEN Similarity(<<>>, <<>>) ELSE o.score
       IN /\ IF Closer(levenshteinDistance, closestMatchDistance)
               THEN closestMatchIndex' = i /\ closestMatchDistance' = levenshteinDistance
               ELSE closestMatchIndex' = closestMatchIndex /\ closestMatchDistance' = closestMatchDistance
          /\ scores' = Append(scores, o)
  /\ i' = i + 1
  /\ UNCHANGED <<content, crlf, scummvmOutput, pc, scummvmOutputSplit, j, scummvmOutputSlice, result>>

\* One turn of the loop of line 169.
ScoreStep ==
  /\ pc = "scan"
  /\ i < Len(scummvmOutputSlice)
  /\ \E o \in ScanOutcomes(scummvmOutputSlice[i + 1]) :
       /\ IF ~o.skipped /\ Closer(o.score, closestMatchDistance)
            THEN closestMatchIndex' = i /\ closestMatchDistance' = o.score
            ELSE closestMatchIndex' = closestMatchIndex /\ closestMatchDistance' = closestMatchDistance
       /\ scores' = Append(scores, o)
  /\ i' = i + 1
  /\ UNCHANGED <<content, crlf, scummvmOutput, pc, scummvmOutputSplit, j, scummvmOutputSlice, result>>

\* Line 193.
ReturnClosest ==
  /\ pc = "scan"
  /\ i >= Len(scummvmOutputSlice)
  /\ pc' = "done"
  /\ result' = Success(scummvmOutputSlice[closestMatchIndex + 1])
  /\ UNCHANGED <<content, crlf, scummvmOutput, scummvmOutputSplit, i, j, scummvmOutputSlice,
                 closestMatchIndex, closestMatchDistance, scores>>

Next ==
  \/ CheckNotFound
  \/ CheckHeader
  \/ SplitLines
  \/ FindRule
  \/ ParseRow
  \/ CheckCount
  \/ ScoreStep
  \/ ReturnClosest

Spec == Init /\ [][Next]_vars

(***************************************************************************)
(* A second set of texts, for the splitting of a row into columns: the     *)
(* header, the rule, one fixed row, and one row of every sequence of up to  *)
(* MaxLineLen characters of RowChars.                                      *)
(***************************************************************************)
RowChars == {"a", " "}

InitRows ==
  \E line \in SeqsUpTo(RowChars, MaxLineLen) : \E windows \in BOOLEAN :
    Start(<<HeaderLine, RuleLine, RowSame, line>>, windows)

SpecRows == InitRows /\ [][Next]_vars

(***************************************************************************)
(* What the properties say of the input and of the scan.                   *)
(***************************************************************************)
InputHasNotFound == \E k \in 1..Len(content) : content[k] = NotFoundPhrase

InputHasHeader == \E k \in 1..Len(content) : content[k] = HeaderLine

InputHasRule == \E k \in 1..Len(content) : content[k] = RuleLine

\* The lines of the input after its first rule line.
InputRows ==
  LET R == {k \in 1..Len(content) : content[k] = RuleLine}
  IN IF R = {} THEN <<>> ELSE SubSeq(content, MinOf(R) + 1, Len(content))

\* The maximal runs <<u, v>> of two or more whitespace characters of a line.
Runs(line) ==
  {r \in (1..Len(line)) \X (1..Len(line)) :
     /\ r[1] < r[2]
     /\ \A x \in r[1]..r[2] : IsSpace(line[x])
     /\ (r[1] = 1 \/ ~IsSpace(line[r[1] - 1]))
     /\ (r[2] = Len(line) \/ ~IsSpace(line[r[2] + 1]))}

\* The n-th run of a line, from the left.
Run(line, n) == CHOOSE r \in Runs(line) : Cardinality({q \in Runs(line) : q[1] < r[1]}) = n - 1

\* A line of segments: it starts and ends with a segment, and has n runs.
Segmented(line, n) ==
  /\ line # <<>>
  /\ ~IsSpace(line[1])
  /\ ~IsSpace(line[Len(line)])
  /\ Cardinality(Runs(line)) = n

NonBlank(field) == \E x \in 1..Len(field) : ~IsSpace(field[x])

Scanning == pc \in {"scan", "done"} /\ Len(scummvmOutputSlice) >= 2

Finished == pc = "done" /\ Len(scummvmOutputSlice) >= 2

\* The score the scan gave candidate k (0 for a skipped one); k is Go's index.
ScoreOf(k) == scores[k + 1].score

Scored(k) == ~scores[k + 1].skipped

(***************************************************************************)
(* Properties.                                                             *)
(***************************************************************************)
\* C1: a text that holds the not-found phrase anywhere gets the not-found
\* failure, and neither the lines nor the candidates nor a score are computed.
NotFoundPrecedence ==
  InputHasNotFound =>
    /\ pc \in {"notfound", "done"}
    /\ pc = "done" => result = [GameID |-> <<>>, Description |-> <<>>, err |-> ErrNotFound]
    /\ scummvmOutputSplit = <<>>
    /\ scummvmOutputSlice = <<>>
    /\ scores = <<>>

\* C1 witness: the not-found failure of a text that also holds a header, a
\* rule and a row after them.
NotFoundWithTable ==
  /\ pc = "done"
  /\ result.err = ErrNotFound
  /\ \E a, b, c \in 1..Len(content) :
       a < b /\ b < c /\ content[a] = HeaderLine /\ content[b] = RuleLine /\ content[c] = RowSame

RowLine == content[4]

RowParsed == pc = "count" /\ Len(content) = 4 /\ content[3] = RowSame

\* C3 as stated: a row of three or more segments has the first segment as its
\* identifier, the last one as its path and all between them as its description.
ColumnsFirstBetweenLast ==
  \A n \in 2..MaxLineLen :
    (RowParsed /\ Segmented(RowLine, n)) =>
      /\ Len(scummvmOutputSlice) = 2
      /\ scummvmOutputSlice[2] =
           [GameID |-> SubSeq(RowLine, 1, Run(RowLine, 1)[1] - 1),
            Description |-> SubSeq(RowLine, Run(RowLine, 1)[2] + 1, Run(RowLine, n)[1] - 1),
            Directory |-> SubSeq(RowLine, Run(RowLine, n)[2] + 1, Len(RowLine))]

\* C3 amended: a row of three or more segments has the first segment as its
\* identifier, the second one as its description and all after the second run
\* of whitespace as its path; with three segments that is the last segment.
ColumnsFirstSecondRest ==
  \A n \in 2..MaxLineLen :
    (RowParsed /\ Segmented(RowLine, n)) =>
      /\ Len(scummvmOutputSlice) = 2
      /\ scummvmOutputSlice[2] =
           [GameID |-> SubSeq(RowLine, 1, Run(RowLine, 1)[1] - 1),
            Description |-> SubSeq(RowLine, Run(RowLine, 1)[2] + 1, Run(RowLine, 2)[1] - 1),
            Directory |-> SubSeq(RowLine, Run(RowLine, 2)[2] + 1, Len(RowLine))]

\* C3 witness: a parsed row of three segments whose description holds a
\* single space and whose runs are longer than two.
RowWithEmbeddedSpace ==
  /\ RowParsed
  /\ Segmented(RowLine, 2)
  /\ Len(scummvmOutputSlice) = 2
  /\ scummvmOutputSlice[2].Description = <<"a", " ", "a">>
  /\ Run(RowLine, 1)[2] - Run(RowLine, 1)[1] >= 2

\* C4 as stated: every candidate has three fields that are not blank, and the
\* lines that do not split into three fields make no candidate.
CandidatesValid ==
  /\ \A k \in 1..Len(scummvmOutputSlice) :
       /\ NonBlank(scummvmOutputSlice[k].GameID)
       /\ NonBlank(scummvmOutputSlice[k].Description)
       /\ NonBlank(scummvmOutputSlice[k].Directory)
  /\ pc = "count" =>
       Len(scummvmOutputSlice) <=
         Cardinality({k \in 1..Len(InputRows) : Cardinality(Runs(InputRows[k])) >= 2})

\* C5: a text that makes one candidate returns its identifier and description
\* as they are, and the scan makes no turn.
SinglePassthrough ==
  (pc \in {"scan", "done"} /\ Len(scummvmOutputSlice) = 1) =>
    /\ pc = "done"
    /\ result = [GameID |-> scummvmOutputSlice[1].GameID,
                 Description |-> scummvmOutputSlice[1].Description,
                 err |-> "nil"]
    /\ scores = <<>>

\* C5 witness: the one row of a table is returned, capitals kept.
SingleRowReturned ==
  /\ pc = "done"
  /\ InputRows = <<RowSame>>
  /\ result = [GameID |-> <<"a">>, Description |-> <<"A">>, err |-> "nil"]

\* C6: the best candidate has a score strictly greater than that of every
\* scored candidate before it, so of two candidates with the same score the
\* later one is never the best.
FirstOfEqualsWins ==
  Scanning =>
    \A k \in 0..(closestMatchIndex - 1) :
      Scored(k) => Greater(ScoreOf(closestMatchIndex), ScoreOf(k))

\* C6 witness: two candidates share the winning score and the first is returned.
TieReturnedFirst ==
  /\ Finished
  /\ \E a, b \in 0..(Len(scores) - 1) :
       /\ a < b
       /\ Scored(a)
       /\ Scored(b)
       /\ SameScore(ScoreOf(a), ScoreOf(b))
       /\ Greater(ScoreOf(a), Zero)
       /\ closestMatchIndex = a
       /\ result.GameID = scummvmOutputSlice[a + 1].GameID
       /\ scummvmOutputSlice[a + 1].GameID # scummvmOutputSlice[b + 1].GameID

\* The candidates the lines make, whatever ends the lines.
RECURSIVE RowsOf(_)
RowsOf(ls) ==
  IF ls = <<>>
    THEN <<>>
    ELSE LET m == ParseLine(Head(ls))
         IN IF HasEmptyField(m) THEN RowsOf(Tail(ls)) ELSE <<m>> \o RowsOf(Tail(ls))

\* C7: the text with "\r\n" line ends and the text with "\n" line ends fail
\* alike before the table, and make the same lines and the same candidates,
\* those of the lines without their ends; no field holds a carriage return.
LineEndingAgnostic ==
  /\ pc = "done" =>
       /\ result.err = ErrNotFound <=> InputHasNotFound
       /\ result.err = ErrNoHeader <=> (~InputHasNotFound /\ ~InputHasHeader)
  /\ pc = "count" =>
       /\ scummvmOutputSplit = content \o <<<<>>>>
       /\ scummvmOutputSlice = RowsOf(InputRows)
       /\ \A k \in 1..Len(scummvmOutputSlice) :
            \A x \in 1..Len(scummvmOutputSlice[k].Directory) :
              scummvmOutputSlice[k].Directory[x] # "\r"

\* C7 witness: a text with "\r\n" line ends has made two candidates.
WindowsTextParsed ==
  /\ crlf
  /\ pc = "count"
  /\ Len(scummvmOutputSlice) = 2
  /\ scummvmOutputSlice[2] = [GameID |-> <<"b">>, Description |-> <<"a">>, Directory |-> <<"b">>]

\* C8 as stated: the returned candidate has a score that no scored candidate
\* exceeds; during the scan the best index is one of the slice and the best
\* score is the greatest of 0 and the scores seen.
HighestScoreWins ==
  /\ Scanning =>
       /\ closestMatchIndex \in 0..(Len(scummvmOutputSlice) - 1)
       /\ \A k \in 0..(Len(scores) - 1) : Scored(k) => AtMost(ScoreOf(k), closestMatchDistance)
       /\ \/ closestMatchDistance = Zero
          \/ \E k \in 0..(Len(scores) - 1) : Scored(k) /\ ScoreOf(k) = closestMatchDistance
  /\ Finished =>
       \A k \in 0..(Len(scores) - 1) : Scored(k) => AtMost(ScoreOf(k), ScoreOf(closestMatchIndex))

\* C9 as stated: with two or more candidates, a candidate whose stemming
\* failed is not the one returned.
SkippedNeverReturned ==
  Finished => Scored(closestMatchIndex)

\* C9 amended: with two or more candidates, a candidate whose stemming failed
\* leaves the best index and score as they were, and is returned only as the
\* first candidate when no candidate scored above 0.
SkippedReturnedOnlyByDefault ==
  /\ Scanning =>
       \A k \in 1..(Len(scores) - 1) : ~Scored(k) => closestMatchIndex # k
  /\ (Finished /\ ~Scored(closestMatchIndex)) =>
       /\ closestMatchIndex = 0
       /\ closestMatchDistance = Zero
       /\ \A k \in 0..(Len(scores) - 1) : Scored(k) => AtMost(ScoreOf(k), Zero)

\* C9 witness: every stemming failed and the first candidate is returned.
AllSkippedFirstReturned ==
  /\ Finished
  /\ \A k \in 0..(Len(scores) - 1) : ~Scored(k)
  /\ result.GameID = scummvmOutputSlice[1].GameID

\* C10 as stated: every similarity is between 0 and 1.
ScoresInUnitRange ==
  \A k \in 0..(Len(scores) - 1) :
    Scored(k) => (AtMost(Zero, ScoreOf(k)) /\ AtMost(ScoreOf(k), One))
=============================================================================
